---- MODULE Spec2Model ----
(***************************************************************************)
(* Runtime-fleet proxy: server/session registry, load balancer, session    *)
(* router, heartbeat handler and heartbeat checker of                      *)
(* openhands/runtime/proxy, as a state machine.                            *)
(*                                                                         *)
(* The registry's three dictionaries are the state.  Every handler is one  *)
(* action: the registry coroutines contain no suspension point, so a       *)
(* handler runs to its upstream call without interleaving.                 *)
(***************************************************************************)
EXTENDS Integers, Sequences, FiniteSets, TLC

\* ------------------------------------------------------------------ inputs

\* Server ids the workers may choose.
ServerIds == {"A", "B"}

\* Values of the session_id request header; the empty string is a header that
\* is present with an empty value.
SessionIds == {"", "s1"}

\* request.headers.get("session_id") when the header is absent.
PyNone == "<None>"

\* No server: Optional[RuntimeServer] is None, or nothing was forwarded.
NoServer == "<no server>"

\* select_server raised instead of returning.
Raised == "<raised>"

\* select_server was not called by the request.
NotCalled == "<not called>"

ONLINE == "online"
OFFLINE == "offline"
BUSY == "busy"
MAINTENANCE == "maintenance"

ServerStatus == {ONLINE, OFFLINE, BUSY, MAINTENANCE}

\* heartbeat_timeout and heartbeat_check_interval, in seconds.
heartbeat_timeout == 60
heartbeat_check_interval == 30

\* RuntimeRegistrationClient.heartbeat_interval, in seconds.
heartbeat_interval == 30

\* The server_id of the worker whose registration client is modelled.
WorkerId == "A"

\* What becomes of a POST of the worker: the proxy handles it and answers, an
\* answer 503 comes back without the proxy handling it, or the call raises.
Network == {"delivered", "rejected", "error"}

\* The status code that stands for http_client.post raising.
TransportError == 0

\* Seconds the clock advances in one Tick step.
TickSeconds == 30

\* The clock stops advancing after MaxTicks ticks.
MaxTicks == 4

\* A payload's last_updated is the sender's clock at most MaxDelayTicks ticks
\* before the proxy handles it.
MaxDelayTicks == 1

\* The most proxied requests that wait for their upstream call at one time.
MaxPending == 2

\* The most session ids the model lets the index lists hold in total.
MaxIndexLen == 2

\* <<current_sessions, max_sessions>> pairs and statuses the payloads carry
\* under Spec.
RouterLoads == {<<0, 1>>, <<1, 1>>}

RouterStatuses == {ONLINE, OFFLINE}

\* Server ids, loads and statuses of the payloads under SpecBalancer.
BalancerIds == {"A", "B", "C"}

BalancerLoads == {<<0, 1>>, <<1, 2>>, <<0, 0>>}

\* Loads and statuses of the payloads under SpecHB.
HBLoads == {<<0, 1>>}

HBStatuses == {ONLINE, BUSY}

\* ------------------------------------------------------------------- state

VARIABLES
    servers,          \* _servers: insertion-ordered dict, as a sequence of RuntimeServer
    sessions,         \* _sessions: session_id -> SessionInfo
    server_sessions,  \* _server_sessions: server_id -> list of session ids
    now,              \* the proxy's clock, in seconds
    running,          \* ProxyServer._running
    hb_task,          \* _heartbeat_check_task: "none", "ready", "sleeping" or "done"
    hb_wake,          \* when the sleeping heartbeat-check task wakes
    hb_failed,        \* the task sleeps in the handler of a sweep that raised
    hb_snapshot,      \* servers a sweep in progress has still to examine
    hb_now,           \* datetime.now() of the sweep in progress
    hb_alive,         \* heartbeat-check tasks created and not yet finished
    pending,          \* proxied requests waiting for their upstream call
    wire,             \* heartbeats the worker has sent that the proxy has not handled
    route,            \* session id -> server its latest request was forwarded to,
                      \*   while that server has stayed registered and online
    w_running,        \* RuntimeRegistrationClient._running
    w_task,           \* its _heartbeat_task: "none", "ready", "sleeping" or "cancelled"
    w_wake,           \* when its sleeping heartbeat task wakes
    w_client,         \* its http_client: "open" or "closed"
    last              \* the latest operation and its outcome

vars == <<servers, sessions, server_sessions, now, running, hb_task, hb_wake, hb_failed,
          hb_snapshot, hb_now, hb_alive, pending, wire, route,
          w_running, w_task, w_wake, w_client, last>>

lifecycle == <<running, hb_task, hb_wake, hb_failed, hb_snapshot, hb_now, hb_alive>>

flight == <<pending, wire>>

tables == <<servers, sessions, server_sessions>>

worker == <<w_running, w_task, w_wake, w_client>>

\* ------------------------------------------------------- dictionary helpers

ServerKeys(S) == {S[i].server_id : i \in 1..Len(S)}

IndexOf(S, id) == CHOOSE i \in 1..Len(S) : S[i].server_id = id

\* Optional[T]: None is the empty tuple, a value x is <<x>>.
None == <<>>

Some(x) == <<x>>

\* dict.get(id)
GetServer(S, id) == IF id \in ServerKeys(S) THEN Some(S[IndexOf(S, id)]) ELSE None

\* d[key] = value: an existing key keeps its position, a new key goes last.
DictSet(S, srv) ==
    IF srv.server_id \in ServerKeys(S)
    THEN [S EXCEPT ![IndexOf(S, srv.server_id)] = srv]
    ELSE Append(S, srv)

\* del d[key]
DictDel(S, id) == SelectSeq(S, LAMBDA r : r.server_id # id)

\* f with key k set to v (k added when new).
MapSet(f, k, v) == [x \in DOMAIN f \cup {k} |-> IF x = k THEN v ELSE f[x]]

\* f without the keys in K.
MapDrop(f, K) == [x \in DOMAIN f \ K |-> f[x]]

Elems(q) == {q[i] : i \in 1..Len(q)}

\* list.remove(x): the first occurrence is removed.
RemoveFirst(q, x) ==
    LET i == CHOOSE j \in 1..Len(q) : q[j] = x /\ \A k \in 1..(j - 1) : q[k] # x
    IN  SubSeq(q, 1, i - 1) \o SubSeq(q, i + 1, Len(q))

\* ---------------------------------------------------------------- payloads

ServerCapacity(cur, max, lu, aware) ==
    [max_sessions |-> max, current_sessions |-> cur,
     last_updated |-> lu, tz_aware |-> aware]

RuntimeServer(id, st, cap) == [server_id |-> id, status |-> st, capacity |-> cap]

SessionInfo(sid, id, t) ==
    [session_id |-> sid, server_id |-> id, created_at |-> t, last_active |-> t]

\* Payloads of POST /servers/register and POST /servers/{id}/heartbeat handled
\* at time t: last_updated is the sender's clock, at most MaxDelayTicks old.
Stamps(t) == {u \in {t - d * TickSeconds : d \in 0..MaxDelayTicks} : u >= 0}

Payloads(ids, statuses, loads, awares, t) ==
    {RuntimeServer(id, st, ServerCapacity(l[1], l[2], u, a)) :
        id \in ids, st \in statuses, l \in loads, u \in Stamps(t), a \in awares}

\* ---------------------------------------------------------------- registry
\* A registry value R is the three dictionaries; every operation yields the
\* registry after the call and the value the call returns.

Registry(S, T, X) == [servers |-> S, sessions |-> T, server_sessions |-> X]

Ret(R, v) == [reg |-> R, ret |-> v]

\* register_server on a list instead of a dictionary: a second registration
\* of an id adds a second entry.
register_server_Appends(R, server) ==
    Ret(Registry(Append(R.servers, server),
                 R.sessions,
                 MapSet(R.server_sessions, server.server_id, <<>>)),
        TRUE)

register_server(R, server) ==
    Ret(Registry(DictSet(R.servers, server),
                 R.sessions,
                 MapSet(R.server_sessions, server.server_id, <<>>)),
        TRUE)

unregister_server(R, server_id) ==
    IF server_id \in ServerKeys(R.servers)
    THEN LET popped == IF server_id \in DOMAIN R.server_sessions
                       THEN R.server_sessions[server_id] ELSE <<>>
         IN  Ret(Registry(DictDel(R.servers, server_id),
                          MapDrop(R.sessions, Elems(popped)),
                          MapDrop(R.server_sessions, {server_id})),
                 TRUE)
    ELSE Ret(R, FALSE)

get_server(R, server_id) == GetServer(R.servers, server_id)

list_servers(R) == R.servers

\* update_server_status that creates the entry of a server it does not find.
update_server_status_Upserts(R, server_id, status) ==
    IF server_id \in ServerKeys(R.servers)
    THEN Ret(Registry([R.servers EXCEPT ![IndexOf(R.servers, server_id)].status = status],
                      R.sessions, R.server_sessions),
             TRUE)
    ELSE Ret(Registry(Append(R.servers,
                             RuntimeServer(server_id, status, ServerCapacity(0, 100, 0, FALSE))),
                      R.sessions, R.server_sessions),
             TRUE)

\* update_server_status that also touches the server's liveness clock.
update_server_status_Touches(R, server_id, status) ==
    IF server_id \in ServerKeys(R.servers)
    THEN Ret(Registry([R.servers EXCEPT ![IndexOf(R.servers, server_id)] =
                          [@ EXCEPT !.status = status,
                                    !.capacity.last_updated = @ + 1]],
                      R.sessions, R.server_sessions),
             TRUE)
    ELSE Ret(R, FALSE)

update_server_status(R, server_id, status) ==
    IF server_id \in ServerKeys(R.servers)
    THEN Ret(Registry([R.servers EXCEPT ![IndexOf(R.servers, server_id)].status = status],
                      R.sessions, R.server_sessions),
             TRUE)
    ELSE Ret(R, FALSE)

\* The session is stored before the index is looked up: a KeyError of the
\* index leaves it stored and the call returns False.
register_session(R, session) ==
    LET stored == MapSet(R.sessions, session.session_id, session)
    IN  IF session.server_id \in DOMAIN R.server_sessions
        THEN Ret(Registry(R.servers, stored,
                          [R.server_sessions EXCEPT ![session.server_id] =
                              Append(@, session.session_id)]),
                 TRUE)
        ELSE Ret(Registry(R.servers, stored, R.server_sessions), FALSE)

\* list.remove runs before the session is deleted: a KeyError (no index for
\* the server) or a ValueError (id not listed) leaves the session stored.
unregister_session(R, session_id) ==
    IF session_id \in DOMAIN R.sessions
    THEN LET sid == R.sessions[session_id].server_id
         IN  IF sid \in DOMAIN R.server_sessions
                /\ session_id \in Elems(R.server_sessions[sid])
             THEN Ret(Registry(R.servers,
                               MapDrop(R.sessions, {session_id}),
                               [R.server_sessions EXCEPT ![sid] =
                                   RemoveFirst(@, session_id)]),
                      TRUE)
             ELSE Ret(R, FALSE)
    ELSE Ret(R, FALSE)

get_session(R, session_id) ==
    IF session_id \in DOMAIN R.sessions THEN Some(R.sessions[session_id]) ELSE None

\* ---------------------------------------------------------------- balancer

\* key(a) < key(b) for key = current_sessions / max_sessions, max_sessions > 0.
KeyLess(a, b) ==
    a.capacity.current_sessions * b.capacity.max_sessions
        < b.capacity.current_sessions * a.capacity.max_sessions

\* sorted() is stable: x goes after every element whose key is not greater.
RECURSIVE InsertByKey(_, _)
InsertByKey(q, x) ==
    IF q = <<>> THEN <<x>>
    ELSE IF KeyLess(x, Head(q)) THEN <<x>> \o q
    ELSE <<Head(q)>> \o InsertByKey(Tail(q), x)

RECURSIVE SortedByKey(_)
SortedByKey(q) ==
    IF q = <<>> THEN <<>>
    ELSE InsertByKey(SortedByKey(SubSeq(q, 1, Len(q) - 1)), q[Len(q)])

\* The server_id select_server returns, NoServer for None, Raised when the
\* key of an available server divides by zero.
select_server(R) ==
    LET available_servers == SelectSeq(list_servers(R), LAMBDA s : s.status = ONLINE)
    IN  IF available_servers = <<>> THEN NoServer
        ELSE IF \E i \in 1..Len(available_servers) :
                    available_servers[i].capacity.max_sessions = 0
             THEN Raised
        ELSE SortedByKey(available_servers)[1].server_id

\* ------------------------------------------------------------ proxy server

\* What a handler did: the registry after it, the HTTP status code, the server
\* the request was forwarded to, what select_server returned, and whether the
\* heartbeat sweep raised.
Outcome(R, code, server, selected, raised) ==
    [reg |-> R, code |-> code, server |-> server, selected |-> selected,
     raised |-> raised]

\* proxy_request with the session registered before the balancer's answer is
\* looked at: a request that finds no server leaves a session behind.
proxy_request_RegistersFirst(R, session_id, t, upstream_ok) ==
    LET session == IF session_id \notin {PyNone, ""}
                   THEN get_session(R, session_id) ELSE None
        target_server == IF session # None
                         THEN get_server(R, session[1].server_id) ELSE None
        code == IF upstream_ok THEN 200 ELSE 500
    IN  IF target_server # None
        THEN Outcome(R, code, target_server[1].server_id, NotCalled, FALSE)
        ELSE LET selected == select_server(R)
             IN  IF selected = Raised THEN Outcome(R, 500, NoServer, selected, FALSE)
                 ELSE IF session_id = PyNone
                      THEN Outcome(R, 500, NoServer, selected, FALSE)
                 ELSE IF selected = NoServer
                      THEN Outcome(register_session(R, SessionInfo(session_id, selected, t)).reg,
                                   503, NoServer, selected, FALSE)
                 ELSE Outcome(register_session(R, SessionInfo(session_id, selected, t)).reg,
                              code, selected, selected, FALSE)

\* ProxyServer.proxy_request for the header value session_id at time t;
\* upstream_ok says whether the upstream call and response.json() succeed.
proxy_request(R, session_id, t, upstream_ok) ==
    LET session == IF session_id \notin {PyNone, ""}
                   THEN get_session(R, session_id) ELSE None
        target_server == IF session # None
                         THEN get_server(R, session[1].server_id) ELSE None
        code == IF upstream_ok THEN 200 ELSE 500
    IN  IF target_server # None
        THEN Outcome(R, code, target_server[1].server_id, NotCalled, FALSE)
        ELSE LET selected == select_server(R)
             IN  IF selected = Raised THEN Outcome(R, 500, NoServer, selected, FALSE)
                 ELSE IF selected = NoServer
                      THEN Outcome(R, 503, NoServer, selected, FALSE)
                 \* SessionInfo(session_id=None) fails validation
                 ELSE IF session_id = PyNone
                      THEN Outcome(R, 500, NoServer, selected, FALSE)
                 ELSE Outcome(register_session(R, SessionInfo(session_id, selected, t)).reg,
                              code, selected, selected, FALSE)

\* handle_heartbeat that registers the payload whether or not the server is
\* known: the entry and its index entry are replaced.
handle_heartbeat_Reregisters(R, server_id, runtime_server) ==
    Outcome(register_server(R, runtime_server).reg, 200, NoServer, NotCalled, FALSE)

\* handle_heartbeat that overwrites the capacity of a known server and never
\* sets its status.
handle_heartbeat_NoRevive(R, server_id, runtime_server) ==
    LET server == get_server(R, runtime_server.server_id)
    IN  IF server = None
        THEN Outcome(register_server(R, runtime_server).reg, 200, NoServer, NotCalled, FALSE)
        ELSE LET i == IndexOf(R.servers, runtime_server.server_id)
             IN  Outcome(Registry([R.servers EXCEPT ![i].capacity = runtime_server.capacity],
                                  R.sessions, R.server_sessions),
                         200, NoServer, NotCalled, FALSE)

\* ProxyServer.handle_heartbeat for POST /servers/{server_id}/heartbeat.
handle_heartbeat(R, server_id, runtime_server) ==
    LET server == get_server(R, runtime_server.server_id)
    IN  IF server = None
        THEN Outcome(register_server(R, runtime_server).reg, 200, NoServer, NotCalled, FALSE)
        ELSE LET i == IndexOf(R.servers, runtime_server.server_id)
                 R1 == Registry([R.servers EXCEPT ![i].capacity = runtime_server.capacity],
                                R.sessions, R.server_sessions)
             IN  IF server[1].status = OFFLINE
                 THEN Outcome(update_server_status(R1, server_id, ONLINE).reg,
                              200, NoServer, NotCalled, FALSE)
                 ELSE Outcome(R1, 200, NoServer, NotCalled, FALSE)

\* now - last_heartbeat > heartbeat_timeout
TimedOut(server, t) == t - server.capacity.last_updated > heartbeat_timeout

\* The loop of _check_heartbeats over the snapshot, from its i-th server on.
\* datetime.now() is naive: subtracting a timezone-aware last_updated raises,
\* which ends the sweep at that server.
RECURSIVE CheckFrom(_, _, _, _)
CheckFrom(R, snapshot, i, t) ==
    IF i > Len(snapshot) THEN Outcome(R, 0, NoServer, NotCalled, FALSE)
    ELSE LET server == get_server(R, snapshot[i].server_id)[1]
         IN  IF server.status = OFFLINE THEN CheckFrom(R, snapshot, i + 1, t)
             ELSE IF server.capacity.tz_aware
                  THEN Outcome(R, 0, NoServer, NotCalled, TRUE)
             ELSE IF TimedOut(server, t)
                  THEN CheckFrom(update_server_status(R, server.server_id, OFFLINE).reg,
                                 snapshot, i + 1, t)
             ELSE CheckFrom(R, snapshot, i + 1, t)

check_heartbeats(R, t) == CheckFrom(R, list_servers(R), 1, t)

\* The body of the sweep's loop for one server of the snapshot.
check_server(R, server, t) ==
    IF server.status = OFFLINE THEN Outcome(R, 0, NoServer, NotCalled, FALSE)
    ELSE IF server.capacity.tz_aware THEN Outcome(R, 0, NoServer, NotCalled, TRUE)
    ELSE IF TimedOut(server, t)
         THEN Outcome(update_server_status(R, server.server_id, OFFLINE).reg,
                      0, NoServer, NotCalled, FALSE)
    ELSE Outcome(R, 0, NoServer, NotCalled, FALSE)

\* What one iteration of _heartbeat_check_loop leaves: the registry, whether
\* the sweep raised, and the task asleep until the next sweep.
Slept(o, task, t) ==
    [reg |-> o.reg, code |-> o.code, server |-> o.server, selected |-> o.selected,
     raised |-> o.raised, task |-> task, wake |-> t + heartbeat_check_interval]

\* _heartbeat_check_loop that lets the exception of a sweep end the task.
heartbeat_check_loop_DiesOnError(R, t) ==
    LET o == check_heartbeats(R, t)
    IN  Slept(o, IF o.raised THEN "done" ELSE "sleeping", t)

\* One iteration of _heartbeat_check_loop at time t: the sweep, then the
\* sleep, in the exception handler when the sweep raised.
heartbeat_check_loop(R, t) == Slept(check_heartbeats(R, t), "sleeping", t)

\* ------------------------------------------------------------ worker agent
\* A client value W is the fields of RuntimeRegistrationClient; every method
\* yields the proxy's registry and the client after the call, the status code
\* of its POST and whether the method raised.

Client(r, task, wake, client) ==
    [running |-> r, task |-> task, wake |-> wake, client |-> client]

Did(R, W, code, raised) == [reg |-> R, w |-> W, code |-> code, raised |-> raised]

get_capacity(t) == ServerCapacity(0, 100, t, FALSE)

get_registration_data(t) == RuntimeServer(WorkerId, ONLINE, get_capacity(t))

\* http_client.post: the proxy's handler runs only when the request is
\* delivered; a closed client raises.
post(R, W, net, handled) ==
    IF W.client = "closed" \/ net = "error" THEN [reg |-> R, code |-> TransportError]
    ELSE IF net = "rejected" THEN [reg |-> R, code |-> 503]
    ELSE handled

\* _register: POST /servers/register.
register(R, W, net, t) ==
    LET r == register_server(R, get_registration_data(t))
    IN  post(R, W, net, [reg |-> r.reg, code |-> IF r.ret THEN 200 ELSE 400])

\* _unregister: POST /servers/unregister/{server_id}.
unregister(R, W, net) ==
    LET r == unregister_server(R, WorkerId)
    IN  post(R, W, net, [reg |-> r.reg, code |-> IF r.ret THEN 200 ELSE 404])

\* start that sets _running and creates the heartbeat task before it looks
\* at the answer to the registration.
start_RunsBeforeRegistering(R, W, net, t) ==
    LET p == register(R, W, net, t)
    IN  Did(p.reg, [W EXCEPT !.running = TRUE, !.task = "ready", !.wake = t],
            p.code, p.code # 200)

\* RuntimeRegistrationClient.start at time t.
start(R, W, net, t) ==
    LET p == register(R, W, net, t)
    IN  IF p.code # 200 THEN Did(p.reg, W, p.code, TRUE)
        ELSE Did(p.reg, [W EXCEPT !.running = TRUE, !.task = "ready", !.wake = t],
                 p.code, FALSE)

\* RuntimeRegistrationClient.stop: an exception of _unregister skips aclose()
\* and is raised again after it is logged.
stop(R, W, net) ==
    LET W1 == [W EXCEPT !.running = FALSE,
                        !.task = IF W.task = "none" THEN "none" ELSE "cancelled"]
        p == unregister(R, W1, net)
    IN  IF p.code # 200 THEN Did(p.reg, W1, p.code, TRUE)
        ELSE Did(p.reg, [W1 EXCEPT !.client = "closed"], p.code, FALSE)

\* _heartbeat_loop whose exception handler leaves the loop.
heartbeat_loop_ExitsOnError(R, W, net, t) ==
    LET h == handle_heartbeat(R, WorkerId, get_registration_data(t))
        p == post(R, W, net, [reg |-> h.reg, code |-> h.code])
    IN  IF ~W.running THEN Did(R, [W EXCEPT !.task = "finished"], 0, FALSE)
        ELSE IF p.code = TransportError
             THEN Did(p.reg, [W EXCEPT !.task = "finished"], p.code, FALSE)
        ELSE Did(p.reg, [W EXCEPT !.task = "sleeping", !.wake = t + heartbeat_interval],
                 p.code, FALSE)

\* One iteration of _heartbeat_loop at time t: the POST, then the sleep; the
\* loop ends at its head when _running is false.
heartbeat_loop(R, W, net, t) ==
    LET h == handle_heartbeat(R, WorkerId, get_registration_data(t))
        p == post(R, W, net, [reg |-> h.reg, code |-> h.code])
    IN  IF ~W.running THEN Did(R, [W EXCEPT !.task = "finished"], 0, FALSE)
        ELSE Did(p.reg, [W EXCEPT !.task = "sleeping", !.wake = t + heartbeat_interval],
                 p.code, FALSE)

\* ----------------------------------------------------------------- actions

EmptyMap == [x \in {} |-> x]

Reg == Registry(servers, sessions, server_sessions)

Install(R) ==
    /\ servers' = R.servers
    /\ sessions' = R.sessions
    /\ server_sessions' = R.server_sessions

\* A route is kept while its server is registered and online.  Routes are
\* followed only by a specification that observes "route".
Routes(obs, S, base) ==
    [s \in SessionIds |->
        IF "route" \in obs /\ base[s] # NoServer /\ GetServer(S, base[s]) # None
           /\ GetServer(S, base[s])[1].status = ONLINE
        THEN base[s] ELSE NoServer]

StatusOf(S) == [id \in ServerKeys(S) |-> S[IndexOf(S, id)].status]

\* The registry before an operation, where a specification does not follow it.
NoRegistry == Registry(<<>>, EmptyMap, EmptyMap)

\* What an unobserved operation leaves in last.
Unobserved ==
    [op |-> "other", sid |-> PyNone, arg |-> NoServer, ok |-> TRUE,
     code |-> 0, server |-> NoServer, selected |-> NotCalled, raised |-> FALSE,
     sticky |-> NoServer, changed |-> FALSE, created |-> {}, pre |-> EmptyMap,
     before |-> NoRegistry, body |-> None, again |-> FALSE, from |-> "none"]

\* The record of an operation: op with its arguments (session id sid, server id
\* arg), its Outcome o and return value ok, from the registry R before it.  A
\* specification records the operations it observes (obs); one that observes
\* "route" records where a proxied request went and where the one before went;
\* one that observes "tables" records the registry before the operation.
Record(obs, op, sid, arg, R, o, ok) ==
    IF op \notin obs
    THEN IF "route" \in obs /\ op = "proxy_request"
         THEN [Unobserved EXCEPT !.op = "routed", !.sid = sid, !.server = o.server,
                                 !.sticky = IF sid \in SessionIds
                                            THEN route[sid] ELSE NoServer]
         ELSE Unobserved
    ELSE
    [op |-> op, sid |-> sid, arg |-> arg, ok |-> ok,
     code |-> o.code, server |-> o.server, selected |-> o.selected,
     raised |-> o.raised,
     sticky |-> IF sid \in SessionIds /\ op = "proxy_request" THEN route[sid] ELSE NoServer,
     changed |-> o.reg # R,
     created |-> DOMAIN o.reg.sessions \ DOMAIN R.sessions,
     pre |-> IF op = "check_heartbeats" THEN StatusOf(R.servers) ELSE EmptyMap,
     before |-> IF "tables" \in obs THEN R ELSE NoRegistry,
     body |-> None, again |-> FALSE, from |-> "none"]

\* The record r of an observed operation with its request body (a RuntimeServer),
\* and whether the operation before it was the same call with the same body.
WithBody(r, server) ==
    IF r.op \in {"other", "routed"} THEN r
    ELSE [r EXCEPT !.body = Some(server),
                   !.again = (last.op = r.op /\ last.arg = r.arg
                              /\ last.body = Some(server))]

\* Where the heartbeat-check task is: its state, with the sleep in the handler
\* of a failed sweep told from the sleep after a sweep that returned.
Position == IF hb_task = "sleeping" /\ hb_failed THEN "sleeping after a failed sweep"
            ELSE hb_task

\* The record r of an observed operation with the position the heartbeat-check
\* task was in before it.
From(r, position) ==
    IF r.op \in {"other", "routed"} THEN r ELSE [r EXCEPT !.from = position]

Plain(R) == Outcome(R, 0, NoServer, NotCalled, FALSE)

RECURSIVE TotalLen(_, _)
TotalLen(X, K) ==
    IF K = {} THEN 0
    ELSE LET k == CHOOSE x \in K : TRUE IN Len(X[k]) + TotalLen(X, K \ {k})

\* The index lists of registry R are within the model's bound.
IndexBounded(R) == TotalLen(R.server_sessions, DOMAIN R.server_sessions) <= MaxIndexLen

\* POST /servers/register
RegisterServer(obs, server) ==
    LET r == register_server(Reg, server)
        o == Outcome(r.reg, IF r.ret THEN 200 ELSE 400, NoServer, NotCalled, FALSE)
    IN  /\ Install(o.reg)
        /\ route' = Routes(obs, o.reg.servers, route)
        /\ last' = WithBody(Record(obs, "register_server", PyNone, server.server_id,
                                   Reg, o, r.ret),
                            server)
        /\ UNCHANGED <<now, lifecycle, worker, flight>>

\* POST /servers/unregister/{server_id}
UnregisterServer(obs, server_id) ==
    LET r == unregister_server(Reg, server_id)
        o == Outcome(r.reg, IF r.ret THEN 200 ELSE 404, NoServer, NotCalled, FALSE)
    IN  /\ Install(o.reg)
        /\ route' = Routes(obs, o.reg.servers, route)
        /\ last' = Record(obs, "unregister_server", PyNone, server_id, Reg, o, r.ret)
        /\ UNCHANGED <<now, lifecycle, worker, flight>>

\* POST /servers/{server_id}/heartbeat
Heartbeat(obs, server_id, runtime_server) ==
    LET o == handle_heartbeat(Reg, server_id, runtime_server)
    IN  /\ Install(o.reg)
        /\ route' = Routes(obs, o.reg.servers, route)
        /\ last' = WithBody(Record(obs, "heartbeat", PyNone, server_id, Reg, o, TRUE),
                            runtime_server)
        /\ UNCHANGED <<now, lifecycle, worker, flight>>

\* ServerRegistry.register_session, called on the registry.
RegisterSession(obs, session_id, server_id) ==
    LET r == register_session(Reg, SessionInfo(session_id, server_id, now))
    IN  /\ IndexBounded(r.reg)
        /\ Install(r.reg)
        /\ route' = Routes(obs, r.reg.servers, route)
        /\ last' = Record(obs, "register_session", session_id, server_id, Reg, Plain(r.reg), r.ret)
        /\ UNCHANGED <<now, lifecycle, worker, flight>>

\* ServerRegistry.unregister_session, called on the registry.
UnregisterSession(obs, session_id) ==
    LET r == unregister_session(Reg, session_id)
    IN  /\ Install(r.reg)
        \* a session that was unregistered has no route to keep
        /\ route' = Routes(obs, r.reg.servers,
                           IF r.ret THEN [route EXCEPT ![session_id] = NoServer] ELSE route)
        /\ last' = Record(obs, "unregister_session", session_id, NoServer, Reg, Plain(r.reg), r.ret)
        /\ UNCHANGED <<now, lifecycle, worker, flight>>

\* Any other request: ProxyServer.proxy_request.
ProxyRequest(obs, session_id, upstream_ok) ==
    LET o == proxy_request(Reg, session_id, now, upstream_ok)
    IN  /\ IndexBounded(o.reg)
        /\ Install(o.reg)
        /\ route' = Routes(obs, o.reg.servers,
                           IF session_id \in SessionIds /\ o.server # NoServer
                           THEN [route EXCEPT ![session_id] = o.server] ELSE route)
        /\ last' = Record(obs, "proxy_request", session_id, NoServer, Reg, o, o.code = 200)
        /\ UNCHANGED <<now, lifecycle, worker, flight>>

\* A proxied request arrives: proxy_request up to its upstream call, where the
\* handler is suspended; a request that is answered 503 or 500 before is over.
\* fresh tells that the request found no binding and the balancer chose.
ProxyBegin(obs, session_id) ==
    LET o == proxy_request(Reg, session_id, now, TRUE)
    IN  /\ Len(pending) < MaxPending
        /\ IndexBounded(o.reg)
        /\ Install(o.reg)
        /\ pending' = IF o.server = NoServer THEN pending
                      ELSE Append(pending, [sid |-> session_id, server |-> o.server,
                                            fresh |-> o.selected # NotCalled])
        /\ route' = Routes(obs, o.reg.servers, route)
        /\ last' = Record(obs, "proxy_begin", session_id, NoServer, Reg, o,
                          o.server # NoServer)
        /\ UNCHANGED <<now, lifecycle, worker, wire>>

\* The upstream call of the i-th waiting request returns or raises.
ProxyEnd(obs, i, upstream_ok) ==
    /\ i \in 1..Len(pending)
    /\ pending' = SubSeq(pending, 1, i - 1) \o SubSeq(pending, i + 1, Len(pending))
    /\ last' = Record(obs, "proxy_end", pending[i].sid, NoServer, Reg,
                      Outcome(Reg, IF upstream_ok THEN 200 ELSE 500, pending[i].server,
                              NotCalled, FALSE),
                      upstream_ok)
    /\ UNCHANGED <<tables, now, lifecycle, route, worker, wire>>

\* LoadBalancer.select_server, called on the balancer.
Select(obs) ==
    LET o == Outcome(Reg, 0, NoServer, select_server(Reg), FALSE)
    IN  /\ last' = Record(obs, "select_server", PyNone, NoServer, Reg, o,
                          o.selected \notin {NoServer, Raised})
        /\ UNCHANGED <<tables, now, lifecycle, route, worker, flight>>

\* A task handle holds a task that has not finished:
\* self._heartbeat_check_task and not self._heartbeat_check_task.done()
Alive(task) == task \notin {"none", "done"}

\* ProxyServer.start without its check of _running: every call creates a task.
Start_Unguarded(obs) ==
    /\ running' = TRUE
    /\ hb_task' = "ready"
    /\ hb_alive' = hb_alive + 1
    /\ hb_wake' = now
    /\ hb_failed' = FALSE
    /\ UNCHANGED <<hb_snapshot, hb_now>>
    /\ last' = From(Record(obs, "start", PyNone, NoServer, Reg, Plain(Reg), TRUE), Position)
    /\ UNCHANGED <<tables, now, route, worker, flight>>

\* ProxyServer.start of a proxy that is not running: the flag is set and the
\* task created; the handle holds the new task, which has not run yet.
Start(obs) ==
    /\ ~running
    /\ running' = TRUE
    /\ hb_task' = "ready"
    /\ hb_alive' = hb_alive + 1
    /\ hb_wake' = now
    /\ hb_failed' = FALSE
    /\ UNCHANGED <<hb_snapshot, hb_now>>
    /\ last' = From(Record(obs, "start", PyNone, NoServer, Reg, Plain(Reg), TRUE), Position)
    /\ UNCHANGED <<tables, now, route, worker, flight>>

\* ProxyServer.start of a running proxy: it returns at once.
StartReturns(obs) ==
    /\ running
    /\ last' = From(Record(obs, "start", PyNone, NoServer, Reg, Plain(Reg), FALSE), Position)
    /\ UNCHANGED <<tables, now, lifecycle, route, worker, flight>>

\* ProxyServer.stop of a proxy that is not running: it returns at once.
StopReturns(obs) ==
    /\ ~running
    /\ last' = From(Record(obs, "stop", PyNone, NoServer, Reg, Plain(Reg), FALSE), Position)
    /\ UNCHANGED <<tables, now, lifecycle, route, worker, flight>>

\* ProxyServer.stop that clears the flag and does not cancel the task.
Stop_LeavesTask(obs) ==
    /\ running
    /\ running' = FALSE
    /\ last' = From(Record(obs, "stop", PyNone, NoServer, Reg, Plain(Reg), TRUE), Position)
    /\ UNCHANGED <<tables, now, hb_task, hb_wake, hb_failed, hb_snapshot, hb_now,
                   hb_alive, route, worker, flight>>

\* ProxyServer.stop: the task is cancelled where it is (before its first step,
\* at an await of a sweep, in either sleep) and awaited.
Stop(obs) ==
    /\ running
    /\ running' = FALSE
    /\ hb_task' = "done"
    /\ hb_alive' = IF Alive(hb_task) THEN hb_alive - 1 ELSE hb_alive
    /\ hb_failed' = FALSE
    /\ hb_snapshot' = <<>>
    /\ UNCHANGED hb_now
    /\ last' = From(Record(obs, "stop", PyNone, NoServer, Reg, Plain(Reg), TRUE), Position)
    /\ UNCHANGED <<tables, now, hb_wake, route, worker, flight>>

\* One iteration of _heartbeat_check_loop: the sweep, then the sleep (also
\* after a sweep that raised).
HeartbeatCheck(obs) ==
    /\ running
    /\ \/ hb_task = "ready"
       \/ hb_task = "sleeping" /\ now >= hb_wake
    /\ LET o == heartbeat_check_loop(Reg, now)
       IN  /\ Install(o.reg)
           /\ route' = Routes(obs, o.reg.servers, route)
           /\ last' = From(Record(obs, "check_heartbeats", PyNone, NoServer, Reg, o,
                                  ~o.raised),
                           Position)
           /\ hb_failed' = o.raised
           /\ hb_task' = o.task
           /\ hb_wake' = o.wake
    /\ UNCHANGED <<hb_snapshot, hb_now, hb_alive>>
    /\ UNCHANGED <<now, running, worker, flight>>

\* The heartbeat-check task is due: it runs before the clock moves on.
SweepDue ==
    \/ hb_task = "ready"
    \/ hb_task = "sleeping" /\ now >= hb_wake

\* Time passes, up to the next wake-up of the heartbeat-check task.
Tick(obs) ==
    /\ now < MaxTicks * TickSeconds
    /\ ~SweepDue
    /\ now' = IF hb_task = "sleeping" /\ hb_wake < now + TickSeconds
              THEN hb_wake ELSE now + TickSeconds
    /\ last' = Record(obs, "tick", PyNone, NoServer, Reg, Plain(Reg), TRUE)
    /\ UNCHANGED <<tables, lifecycle, route, worker, flight>>

\* A sweep taken step by step, with the other handlers running between its
\* awaits.  The sweep begins: datetime.now() and the snapshot of the servers.
SweepBegin(obs) ==
    /\ running
    /\ SweepDue
    /\ hb_task' = "sweeping"
    /\ hb_now' = now
    /\ hb_snapshot' = list_servers(Reg)
    /\ hb_failed' = FALSE
    /\ last' = Record(obs, "sweep_begin", PyNone, NoServer, Reg, Plain(Reg), TRUE)
    /\ UNCHANGED <<tables, now, running, hb_wake, hb_alive, route, worker, flight>>

\* The sweep examines the next server of its snapshot.  The snapshot holds the
\* object: the registry's entry while the server is still that object, the
\* object as the snapshot took it (stale) when it was unregistered or replaced.
\* ok tells whether update_server_status was called.
SweepStep(obs, stale) ==
    /\ hb_task = "sweeping"
    /\ hb_snapshot # <<>>
    /\ LET id == Head(hb_snapshot).server_id
           server == IF stale \/ get_server(Reg, id) = None
                     THEN Head(hb_snapshot) ELSE get_server(Reg, id)[1]
           o == check_server(Reg, server, hb_now)
       IN  /\ Install(o.reg)
           /\ route' = Routes(obs, o.reg.servers, route)
           /\ last' = From(Record(obs, "sweep_step", PyNone, id, Reg, o,
                                  ~o.raised /\ server.status # OFFLINE
                                      /\ TimedOut(server, hb_now)),
                           Position)
           /\ hb_failed' = o.raised
           /\ hb_task' = IF o.raised THEN "sleeping" ELSE "sweeping"
           /\ hb_wake' = IF o.raised THEN now + heartbeat_check_interval ELSE hb_wake
           /\ hb_snapshot' = IF o.raised THEN <<>> ELSE Tail(hb_snapshot)
    /\ UNCHANGED <<now, running, hb_now, hb_alive, worker, flight>>

\* The sweep has examined every server: the task sleeps.
SweepEnd(obs) ==
    /\ hb_task = "sweeping"
    /\ hb_snapshot = <<>>
    /\ hb_task' = "sleeping"
    /\ hb_wake' = now + heartbeat_check_interval
    /\ last' = Record(obs, "sweep_end", PyNone, NoServer, Reg, Plain(Reg), TRUE)
    /\ UNCHANGED <<tables, now, running, hb_failed, hb_snapshot, hb_now, hb_alive, route,
                   worker, flight>>

TheClient == Client(w_running, w_task, w_wake, w_client)

InstallClient(W) ==
    /\ w_running' = W.running
    /\ w_task' = W.task
    /\ w_wake' = W.wake
    /\ w_client' = W.client

\* What a method of the client leaves in last.
Done(obs, op, d) ==
    Record(obs, op, PyNone, WorkerId, Reg,
           Outcome(d.reg, d.code, NoServer, NotCalled, d.raised), ~d.raised)

\* RuntimeRegistrationClient.start, called while the client is not running.
WorkerStart(obs, net) ==
    LET d == start(Reg, TheClient, net, now)
    IN  /\ ~w_running
        /\ Install(d.reg)
        /\ InstallClient(d.w)
        /\ route' = Routes(obs, d.reg.servers, route)
        /\ last' = Done(obs, "worker_start", d)
        /\ UNCHANGED <<now, lifecycle, flight>>

\* RuntimeRegistrationClient.stop
WorkerStop(obs, net) ==
    LET d == stop(Reg, TheClient, net)
    IN  /\ Install(d.reg)
        /\ InstallClient(d.w)
        /\ route' = Routes(obs, d.reg.servers, route)
        /\ last' = Done(obs, "worker_stop", d)
        /\ UNCHANGED <<now, lifecycle, flight>>

\* The heartbeat task runs: it was just created, or its sleep is over.
WorkerDue ==
    \/ w_task = "ready"
    \/ w_task = "sleeping" /\ now >= w_wake

\* One iteration of the heartbeat task.
WorkerHeartbeat(obs, net) ==
    LET d == heartbeat_loop(Reg, TheClient, net, now)
    IN  /\ WorkerDue
        /\ Install(d.reg)
        /\ InstallClient(d.w)
        /\ route' = Routes(obs, d.reg.servers, route)
        /\ last' = Done(obs, "worker_heartbeat", d)
        /\ UNCHANGED <<now, lifecycle, flight>>

\* The heartbeat task sends its POST and waits for the answer; the request is
\* on its way to the proxy.
WorkerSend(obs) ==
    /\ w_running
    /\ WorkerDue
    /\ w_client = "open"
    /\ w_task' = "posting"
    /\ wire' = wire \cup {get_registration_data(now)}
    /\ last' = Record(obs, "worker_send", PyNone, WorkerId, Reg, Plain(Reg), TRUE)
    /\ UNCHANGED <<tables, now, lifecycle, route, w_running, w_wake, w_client, pending>>

\* The heartbeat the task is waiting for is the latest one sent.
Awaited(m) ==
    /\ w_task = "posting"
    /\ \A x \in wire : x.capacity.last_updated <= m.capacity.last_updated

\* The proxy handles a heartbeat that was on its way; the task that waits for
\* the answer goes to sleep.  A heartbeat whose sender was cancelled meanwhile
\* is handled all the same.
Deliver(obs, m) ==
    LET o == handle_heartbeat(Reg, m.server_id, m)
    IN  /\ m \in wire
        /\ wire' = wire \ {m}
        /\ Install(o.reg)
        /\ route' = Routes(obs, o.reg.servers, route)
        /\ w_task' = IF Awaited(m) THEN "sleeping" ELSE w_task
        /\ w_wake' = IF Awaited(m) THEN now + heartbeat_interval ELSE w_wake
        /\ last' = WithBody(Record(obs, "heartbeat", PyNone, m.server_id, Reg, o, TRUE), m)
        /\ UNCHANGED <<now, lifecycle, w_running, w_client, pending>>

\* A heartbeat is lost on its way: the POST of the task that waits raises.
Lose(obs, m) ==
    /\ m \in wire
    /\ wire' = wire \ {m}
    /\ w_task' = IF Awaited(m) THEN "sleeping" ELSE w_task
    /\ w_wake' = IF Awaited(m) THEN now + heartbeat_interval ELSE w_wake
    /\ last' = Record(obs, "lose", PyNone, m.server_id, Reg, Plain(Reg), FALSE)
    /\ UNCHANGED <<tables, now, lifecycle, route, w_running, w_client, pending>>

\* Time passes for the worker, up to the next wake-up of its heartbeat task.
WorkerTick(obs) ==
    /\ now < MaxTicks * TickSeconds
    /\ ~WorkerDue
    /\ now' = IF w_task = "sleeping" /\ w_wake < now + TickSeconds
              THEN w_wake ELSE now + TickSeconds
    /\ last' = Record(obs, "tick", PyNone, NoServer, Reg, Plain(Reg), TRUE)
    /\ UNCHANGED <<tables, lifecycle, route, worker, flight>>

\* The earliest wake-up among the sleeping tasks of the proxy and the worker
\* that lies before time t, or t.
NextWake(t) ==
    LET a == IF hb_task = "sleeping" /\ hb_wake < t THEN hb_wake ELSE t
    IN  IF w_task = "sleeping" /\ w_wake < a THEN w_wake ELSE a

\* Time passes for the proxy and the worker, up to the next wake-up.
FleetTick(obs) ==
    /\ now < MaxTicks * TickSeconds
    /\ ~SweepDue
    /\ ~WorkerDue
    /\ now' = NextWake(now + TickSeconds)
    /\ last' = Record(obs, "tick", PyNone, NoServer, Reg, Plain(Reg), TRUE)
    /\ UNCHANGED <<tables, lifecycle, route, worker, flight>>

\* The clock has reached the last instant the model counts: the sleeps of the
\* tasks still end, at that instant.
Horizon(obs) ==
    /\ now >= MaxTicks * TickSeconds
    /\ ~SweepDue
    /\ ~WorkerDue
    /\ hb_task = "sleeping" \/ w_task = "sleeping"
    /\ hb_wake' = IF hb_task = "sleeping" THEN now ELSE hb_wake
    /\ w_wake' = IF w_task = "sleeping" THEN now ELSE w_wake
    /\ last' = Record(obs, "tick", PyNone, NoServer, Reg, Plain(Reg), TRUE)
    /\ UNCHANGED <<tables, now, running, hb_task, hb_failed, hb_snapshot, hb_now,
                   hb_alive, route, w_running, w_task, w_client, flight>>

Init ==
    /\ servers = <<>>
    /\ sessions = EmptyMap
    /\ server_sessions = EmptyMap
    /\ now = 0
    /\ running = FALSE
    /\ hb_task = "none"
    /\ hb_wake = 0
    /\ hb_failed = FALSE
    /\ hb_snapshot = <<>>
    /\ hb_now = 0
    /\ hb_alive = 0
    /\ pending = <<>>
    /\ wire = {}
    /\ route = [s \in SessionIds |-> NoServer]
    /\ w_running = FALSE
    /\ w_task = "none"
    /\ w_wake = 0
    /\ w_client = "open"
    /\ last = Unobserved

RouterPayloads == Payloads(ServerIds, RouterStatuses, RouterLoads, {FALSE}, now)

Headers == SessionIds \cup {PyNone}

\* Spec: the registry and the router at one instant (registrations,
\* heartbeats, session calls, proxied requests), observing the router and the
\* cascade of unregister_server.
RouterObs == {"proxy_request", "unregister_server"}

Next ==
    \/ \E p \in RouterPayloads : RegisterServer(RouterObs, p)
    \/ \E id \in ServerIds : UnregisterServer(RouterObs, id)
    \/ \E p \in RouterPayloads : Heartbeat(RouterObs, p.server_id, p)
    \/ \E s \in SessionIds, id \in ServerIds : RegisterSession(RouterObs, s, id)
    \/ \E s \in SessionIds : UnregisterSession(RouterObs, s)
    \/ \E h \in Headers, ok \in BOOLEAN : ProxyRequest(RouterObs, h, ok)

Spec == Init /\ [][Next]_vars

\* SpecSticky: the same operations, following the route of every session
\* across proxied requests.
StickyObs == {"route"}

NextSticky ==
    \/ \E p \in RouterPayloads : RegisterServer(StickyObs, p)
    \/ \E id \in ServerIds : UnregisterServer(StickyObs, id)
    \/ \E p \in RouterPayloads : Heartbeat(StickyObs, p.server_id, p)
    \/ \E s \in SessionIds, id \in ServerIds : RegisterSession(StickyObs, s, id)
    \/ \E s \in SessionIds : UnregisterSession(StickyObs, s)
    \/ \E h \in Headers, ok \in BOOLEAN : ProxyRequest(StickyObs, h, ok)

SpecSticky == Init /\ [][NextSticky]_vars

\* SpecBalancer: select_server over every server list registrations build.
BalancerPayloads == Payloads(BalancerIds, ServerStatus, BalancerLoads, {FALSE}, now)

BalancerObs == {"select_server"}

NextBalancer ==
    \/ \E p \in BalancerPayloads : RegisterServer(BalancerObs, p)
    \/ \E id \in BalancerIds : UnregisterServer(BalancerObs, id)
    \/ Select(BalancerObs)

SpecBalancer == Init /\ [][NextBalancer]_vars

\* SpecHB: the heartbeat checker, with the proxy's life cycle, the clock, the
\* sweeps and the traffic that sets last_updated.
HBPayloads == Payloads(ServerIds, HBStatuses, HBLoads, BOOLEAN, now)

HBObs == {"check_heartbeats"}

NextHB ==
    \/ \E p \in HBPayloads : RegisterServer(HBObs, p)
    \/ \E id \in ServerIds : UnregisterServer(HBObs, id)
    \/ \E p \in HBPayloads : Heartbeat(HBObs, p.server_id, p)
    \/ Start(HBObs)
    \/ Stop(HBObs)
    \/ HeartbeatCheck(HBObs)
    \/ Tick(HBObs)

SpecHB == Init /\ [][NextHB]_vars

\* SpecFleet: the requests of one session to a one-server fleet while the
\* checker sweeps; every payload says online, so the server is offline only
\* after a sweep.
FleetIds == {"A"}

FleetHeaders == {"s1"}

FleetPayloads == Payloads(FleetIds, {ONLINE}, HBLoads, {FALSE}, now)

NextFleet ==
    \/ \E p \in FleetPayloads : RegisterServer(RouterObs, p)
    \/ \E id \in FleetIds : UnregisterServer(RouterObs, id)
    \/ \E p \in FleetPayloads : Heartbeat(RouterObs, p.server_id, p)
    \/ \E h \in FleetHeaders, ok \in BOOLEAN : ProxyRequest(RouterObs, h, ok)
    \/ Start(RouterObs)
    \/ Stop(RouterObs)
    \/ HeartbeatCheck(RouterObs)
    \/ Tick(RouterObs)

SpecFleet == Init /\ [][NextFleet]_vars

\* SpecFrame: every operation on a one-server fleet with the clock running,
\* observing the steps that may write a capacity and the sweeps.
FrameObs == {"register_server", "heartbeat", "check_heartbeats"}

NextFrame ==
    \/ \E p \in FleetPayloads : RegisterServer(FrameObs, p)
    \/ \E id \in FleetIds : UnregisterServer(FrameObs, id)
    \/ \E p \in FleetPayloads : Heartbeat(FrameObs, p.server_id, p)
    \/ \E s \in FleetHeaders, id \in FleetIds : RegisterSession(FrameObs, s, id)
    \/ \E s \in FleetHeaders : UnregisterSession(FrameObs, s)
    \/ \E h \in FleetHeaders, ok \in BOOLEAN : ProxyRequest(FrameObs, h, ok)
    \/ Select(FrameObs)
    \/ Start(FrameObs)
    \/ Stop(FrameObs)
    \/ HeartbeatCheck(FrameObs)
    \/ Tick(FrameObs)

SpecFrame == Init /\ [][NextFrame]_vars

\* SpecSweep: the heartbeat checker with its sweep taken step by step, while
\* servers register, unregister and send heartbeats, a session is bound, the
\* proxy starts and stops and the clock runs.
SweepPayloads == Payloads(FleetIds, {ONLINE}, HBLoads, BOOLEAN, now)

SweepObs == {"tables", "sweep_step", "stop"}

NextSweep ==
    \/ \E p \in SweepPayloads : RegisterServer(SweepObs, p)
    \/ \E id \in FleetIds : UnregisterServer(SweepObs, id)
    \/ \E p \in SweepPayloads : Heartbeat(SweepObs, p.server_id, p)
    \/ \E h \in FleetHeaders, ok \in BOOLEAN : ProxyRequest(SweepObs, h, ok)
    \/ Start(SweepObs)
    \/ Stop(SweepObs)
    \/ SweepBegin(SweepObs)
    \/ \E stale \in BOOLEAN : SweepStep(SweepObs, stale)
    \/ SweepEnd(SweepObs)
    \/ Tick(SweepObs)

SpecSweep == Init /\ [][NextSweep]_vars

\* SpecRace: proxied requests that overlap in their upstream calls, while
\* servers register and report their load.
RaceObs == {"proxy_end"}

NextRace ==
    \/ \E p \in RouterPayloads : RegisterServer(RaceObs, p)
    \/ \E p \in RouterPayloads : Heartbeat(RaceObs, p.server_id, p)
    \/ \E h \in Headers : ProxyBegin(RaceObs, h)
    \/ \E i \in 1..MaxPending, ok \in BOOLEAN : ProxyEnd(RaceObs, i, ok)

SpecRace == Init /\ [][NextRace]_vars

\* SpecLate: the worker with its heartbeats on the way to the proxy: a
\* heartbeat is sent in one step and handled by the proxy in a later one, and
\* stop() may cancel the heartbeat task in between.
LateObs == {"worker_stop", "heartbeat"}

NextLate ==
    \/ \E net \in Network : WorkerStart(LateObs, net)
    \/ WorkerSend(LateObs)
    \/ \E m \in wire : Deliver(LateObs, m)
    \/ \E m \in wire : Lose(LateObs, m)
    \/ \E net \in Network : WorkerStop(LateObs, net)
    \/ WorkerTick(LateObs)

SpecLate == Init /\ [][NextLate]_vars

\* SpecRevive: a worker and the proxy's checker on one clock; the proxy, once
\* started, keeps running, and the operator may unregister the worker.  The
\* event loops run a task that is due, the sleeps
\* end, and of the heartbeats the worker keeps sending some keep being delivered.
ReviveObs == {"tables", "worker_heartbeat"}

NextRevive ==
    \/ \E net \in Network : WorkerStart(ReviveObs, net)
    \/ \E net \in Network : WorkerHeartbeat(ReviveObs, net)
    \/ \E net \in Network : WorkerStop(ReviveObs, net)
    \/ UnregisterServer(ReviveObs, WorkerId)
    \/ Start(ReviveObs)
    \/ HeartbeatCheck(ReviveObs)
    \/ FleetTick(ReviveObs)
    \/ Horizon(ReviveObs)

SpecRevive ==
    /\ Init
    /\ [][NextRevive]_vars
    /\ WF_vars(FleetTick(ReviveObs) \/ Horizon(ReviveObs))
    /\ WF_vars(HeartbeatCheck(ReviveObs))
    /\ SF_vars(WorkerHeartbeat(ReviveObs, "delivered"))

\* SpecLifecycle: start and stop called in any order, one call after the other
\* as the lifespan of the application calls them, while the checker sweeps a
\* one-server registry (its sweeps raise on a timezone-aware payload).
LifecycleObs == {"start", "stop"}

NextLifecycle ==
    \/ \E p \in SweepPayloads : RegisterServer(LifecycleObs, p)
    \/ Start(LifecycleObs)
    \/ StartReturns(LifecycleObs)
    \/ Stop(LifecycleObs)
    \/ StopReturns(LifecycleObs)
    \/ HeartbeatCheck(LifecycleObs)
    \/ Tick(LifecycleObs)

SpecLifecycle == Init /\ [][NextLifecycle]_vars

\* SpecRegistry: every registry call and the heartbeat handler, each recorded
\* with the registry before it and its request body; a heartbeat's path id and
\* its body's server_id are chosen independently.
RegistryObs ==
    {"tables", "register_server", "heartbeat", "register_session", "unregister_session"}

NextRegistry ==
    \/ \E p \in RouterPayloads : RegisterServer(RegistryObs, p)
    \/ \E id \in ServerIds : UnregisterServer(RegistryObs, id)
    \/ \E id \in ServerIds, p \in RouterPayloads : Heartbeat(RegistryObs, id, p)
    \/ \E s \in FleetHeaders, id \in ServerIds : RegisterSession(RegistryObs, s, id)
    \/ \E s \in FleetHeaders : UnregisterSession(RegistryObs, s)

SpecRegistry == Init /\ [][NextRegistry]_vars

\* SpecWorker: one worker's registration client against the proxy's registry:
\* start, the heartbeat task, stop, the network's answers and the clock; the
\* proxy's operator may unregister the worker.
WorkerObs == {"worker_start", "worker_heartbeat", "worker_stop"}

NextWorker ==
    \/ \E net \in Network : WorkerStart(WorkerObs, net)
    \/ \E net \in Network : WorkerHeartbeat(WorkerObs, net)
    \/ \E net \in Network : WorkerStop(WorkerObs, net)
    \/ UnregisterServer(WorkerObs, WorkerId)
    \/ WorkerTick(WorkerObs)

SpecWorker == Init /\ [][NextWorker]_vars

\* ------------------------------------------------------------------ claims

OnlineIds == {servers[i].server_id : i \in {j \in 1..Len(servers) : servers[j].status = ONLINE}}

Server(id) == servers[IndexOf(servers, id)]

\* current_sessions / max_sessions of a is at most that of b.
RatioLE(a, b) ==
    Server(a).capacity.current_sessions * Server(b).capacity.max_sessions
        <= Server(b).capacity.current_sessions * Server(a).capacity.max_sessions

LeastLoadedOnline(id) == id \in OnlineIds /\ \A k \in OnlineIds : RatioLE(id, k)

\* C1: every session in the session table has a server_id that is a key of the
\* server table, and its session_id is in the index entry of that server.
C1_SessionsBoundAndIndexed ==
    \A s \in DOMAIN sessions :
        /\ sessions[s].server_id \in ServerKeys(servers)
        /\ sessions[s].server_id \in DOMAIN server_sessions
        /\ s \in Elems(server_sessions[sessions[s].server_id])

\* C2: the keys of the index are the keys of the server table, and every
\* session id listed in index[K] is in the session table with server_id = K.
C2_IndexMatchesTables ==
    /\ DOMAIN server_sessions = ServerKeys(servers)
    /\ \A k \in DOMAIN server_sessions :
          \A s \in Elems(server_sessions[k]) :
              s \in DOMAIN sessions /\ sessions[s].server_id = k

\* C3: after a successful unregister_server(K) no session with server_id = K
\* remains in the session table and K has no index entry.
C3_UnregisterCascades ==
    (last.op = "unregister_server" /\ last.ok) =>
        /\ \A s \in DOMAIN sessions : sessions[s].server_id # last.arg
        /\ last.arg \notin DOMAIN server_sessions

\* C4: a proxied request carrying a session id whose previous request was
\* forwarded to a server that has stayed registered and online since is
\* forwarded to that same server.
C4_StickyRouting ==
    (last.op = "routed" /\ last.sticky # NoServer) => last.server = last.sticky

\* C5: the router never forwards a request to a server whose status is offline.
C5_NeverForwardsToOffline ==
    (last.op = "proxy_request" /\ last.server # NoServer) =>
        Server(last.server).status # OFFLINE

\* C6: select_server returns nothing iff no registered server is online, and
\* otherwise returns an online server whose load ratio is at most that of
\* every other online server.
C6_SelectsLeastLoadedOnline ==
    last.op = "select_server" =>
        /\ last.selected = NoServer <=> OnlineIds = {}
        /\ OnlineIds # {} => LeastLoadedOnline(last.selected)

\* C7: a proxied request without a session_id header, arriving while a server
\* is online, is forwarded to the least-loaded online server and creates exactly
\* one session, bound to that server.
C7_NoHeaderCreatesSession ==
    (last.op = "proxy_request" /\ last.sid = PyNone /\ OnlineIds # {}) =>
        /\ LeastLoadedOnline(last.server)
        /\ Cardinality(last.created) = 1
        /\ \A s \in last.created : sessions[s].server_id = last.server

\* The session id has no binding the router uses: no header value, no
\* session, or a session whose server is not registered.
NoBinding(sid) ==
    \/ sid \in {PyNone, ""}
    \/ sid \notin DOMAIN sessions
    \/ sessions[sid].server_id \notin ServerKeys(servers)

\* C8: a proxied request without a binding for which the balancer returns
\* nothing (no server is online) fails with 503, is forwarded nowhere and
\* leaves the server table, the session table and the index unchanged.
C8_NoCapacityChangesNothing ==
    last.op = "proxy_request" =>
        /\ last.selected = NoServer =>
              /\ last.code = 503
              /\ last.server = NoServer
              /\ ~last.changed
              /\ last.created = {}
        /\ (NoBinding(last.sid) /\ OnlineIds = {}) =>
              (last.selected = NoServer /\ last.code = 503)

\* C8 witness: a request whose session is bound to an unregistered server
\* got 503 while a server that is not online was registered.
C8_Witness ==
    /\ last.op = "proxy_request"
    /\ last.code = 503
    /\ last.sid \in DOMAIN sessions
    /\ servers # <<>>

\* C9: one sweep turns offline exactly the servers that were not offline and
\* whose last_updated is more than heartbeat_timeout before the sweep's now;
\* every other server keeps its status.
C9_SweepMarksExactlyTimedOut ==
    last.op = "check_heartbeats" =>
        \A i \in 1..Len(servers) :
            servers[i].status =
                IF last.pre[servers[i].server_id] # OFFLINE
                   /\ now - servers[i].capacity.last_updated > heartbeat_timeout
                THEN OFFLINE
                ELSE last.pre[servers[i].server_id]

\* C10: while the proxy runs and its checker sleeps between sweeps, a server
\* that is not offline is at most heartbeat_check_interval past its
\* last_updated + heartbeat_timeout deadline.
C10_OfflineWithinInterval ==
    (running /\ hb_task = "sleeping") =>
        \A i \in 1..Len(servers) :
            servers[i].status # OFFLINE =>
                now <= servers[i].capacity.last_updated + heartbeat_timeout
                           + heartbeat_check_interval

\* The server_id of the latest operation's request body.
BodyId == last.body[1].server_id

\* C11: a heartbeat for a registered server that is offline sets that server's
\* status to online and changes no other status; a heartbeat for a registered
\* server that is not offline changes no status at all.
C11_HeartbeatRevivesOnce ==
    (last.op = "heartbeat" /\ BodyId \in ServerKeys(last.before.servers)) =>
        LET pre == StatusOf(last.before.servers)
        IN  /\ pre[BodyId] = OFFLINE => StatusOf(servers) = [pre EXCEPT ![BodyId] = ONLINE]
            /\ pre[BodyId] # OFFLINE => StatusOf(servers) = pre

\* C12: a heartbeat whose server_id is not in the server table succeeds and
\* adds the payload as a server with an empty index entry; a heartbeat for a
\* known server sets its capacity to the payload's, keeps the entry in place
\* (its status is the old one, or online after offline) and leaves the session
\* table and the index as they were.
C12_HeartbeatRegistersOrUpdates ==
    last.op = "heartbeat" =>
        LET B == last.before
            p == last.body[1]
        IN  IF BodyId \notin ServerKeys(B.servers)
            THEN /\ last.code = 200
                 /\ servers = Append(B.servers, p)
                 /\ sessions = B.sessions
                 /\ server_sessions = MapSet(B.server_sessions, BodyId, <<>>)
            ELSE LET i == IndexOf(B.servers, BodyId)
                 IN  /\ last.code = 200
                     /\ Len(servers) = Len(B.servers)
                     /\ servers[i].server_id = BodyId
                     /\ servers[i].capacity = p.capacity
                     /\ servers[i].status \in
                            {B.servers[i].status} \cup
                            (IF B.servers[i].status = OFFLINE THEN {ONLINE} ELSE {})
                     /\ sessions = B.sessions
                     /\ server_sessions = B.server_sessions

\* C12 witness: a heartbeat changed the capacity of a server that has sessions
\* in its index entry.
C12_Witness ==
    /\ last.op = "heartbeat"
    /\ BodyId \in ServerKeys(last.before.servers)
    /\ server_sessions[BodyId] # <<>>
    /\ last.before.servers[IndexOf(last.before.servers, BodyId)].capacity
          # last.body[1].capacity

\* C13: register_server for an id that is already registered replaces the
\* server's entry by the payload and leaves the session table and the index,
\* the entry of that id included, as they were.
C13_ReregistrationKeepsIndex ==
    (last.op = "register_server" /\ last.arg \in ServerKeys(last.before.servers)) =>
        /\ GetServer(servers, last.arg) = last.body
        /\ sessions = last.before.sessions
        /\ server_sessions = last.before.server_sessions

\* C14: a register_server call that follows a register_server call with the
\* same payload leaves the server table, the session table and the index as
\* the first call left them.
C14_RegisterIdempotent ==
    (last.op = "register_server" /\ last.again) => Reg = last.before

\* C14 witness: the same payload was registered twice in a row while a session
\* was in the session table.
C14_Witness ==
    /\ last.op = "register_server"
    /\ last.again
    /\ sessions # EmptyMap

\* C15: register_session for a server_id that is not in the server table
\* returns failure and leaves the session table and the index unchanged.
C15_UnknownServerRejected ==
    (last.op = "register_session" /\ last.arg \notin ServerKeys(last.before.servers)) =>
        /\ ~last.ok
        /\ sessions = last.before.sessions
        /\ server_sessions = last.before.server_sessions

\* C16: register_session for a session_id that is already in the session table
\* returns failure, keeps the existing binding and appends nothing to the index.
C16_DuplicateSessionRejected ==
    (last.op = "register_session" /\ last.sid \in DOMAIN last.before.sessions) =>
        /\ ~last.ok
        /\ sessions = last.before.sessions
        /\ server_sessions = last.before.server_sessions

\* C17: after a successful unregister_session(id) the id is in neither the
\* session table nor any index entry; unregister_session of an id that is not
\* in the session table returns failure and changes nothing.
C17_UnregisterSessionRemoves ==
    last.op = "unregister_session" =>
        /\ last.ok =>
              /\ last.sid \notin DOMAIN sessions
              /\ \A k \in DOMAIN server_sessions : last.sid \notin Elems(server_sessions[k])
        /\ last.sid \notin DOMAIN last.before.sessions =>
              (~last.ok /\ Reg = last.before)

\* C18: a heartbeat of a running worker that gets a status code other than 200
\* or a transport error leaves the worker running, with its heartbeat task
\* asleep until heartbeat_interval later; while the worker is running its
\* heartbeat task is alive.
C18_HeartbeatFailureKeepsLoop ==
    /\ (last.op = "worker_heartbeat" /\ last.code # 200) =>
          /\ ~last.raised
          /\ w_running
          /\ w_task = "sleeping"
          /\ w_wake = now + heartbeat_interval
    /\ w_running => w_task \in {"ready", "sleeping"}

\* C18 witness: a heartbeat whose POST raised, sent by a task that had slept.
C18_Witness ==
    /\ last.op = "worker_heartbeat"
    /\ last.code = TransportError
    /\ now >= heartbeat_interval
    /\ w_wake = now + heartbeat_interval

\* C19: a start whose registration POST raises or is answered by another code
\* than 200 raises and leaves the worker not running without a live heartbeat
\* task; a start whose registration is answered 200 leaves it running with the
\* heartbeat task created; only a running worker has a live heartbeat task or
\* sends a heartbeat, and a worker becomes running only by such a start.
C19_RunningOnlyAfterRegistration ==
    /\ [](/\ last.op = "worker_start" =>
               IF last.code = 200
               THEN ~last.raised /\ w_running /\ w_task = "ready"
               ELSE last.raised /\ ~w_running /\ w_task \notin {"ready", "sleeping"}
          /\ last.op = "worker_heartbeat" => w_running
          /\ w_task \in {"ready", "sleeping"} => w_running)
    /\ [][(~w_running /\ w_running') =>
              (last'.op = "worker_start" /\ last'.code = 200)]_vars

\* C19 witness: a start failed on its registration after the clock had moved,
\* and the worker is not running.
C19_Witness ==
    /\ last.op = "worker_start"
    /\ last.code # 200
    /\ last.raised
    /\ ~w_running
    /\ now > 0

\* C20: stop leaves no live heartbeat task, does not raise and leaves the HTTP
\* client closed, whatever the answer to its unregister POST.
C20_StopReleasesClient ==
    last.op = "worker_stop" =>
        /\ w_task \notin {"ready", "sleeping"}
        /\ ~w_running
        /\ ~last.raised
        /\ w_client = "closed"

\* server_id values in lexicographic order.
LexOrder == <<"A", "B", "C">>

LexLE(a, b) ==
    \E i, j \in 1..Len(LexOrder) : i <= j /\ LexOrder[i] = a /\ LexOrder[j] = b

\* C23: among the online servers that share the minimal load ratio,
\* select_server returns the one whose server_id is lexicographically smallest.
C23_TieBreakIsLexicographic ==
    (last.op = "select_server" /\ last.selected \notin {NoServer, Raised}) =>
        \A k \in OnlineIds : RatioLE(k, last.selected) => LexLE(last.selected, k)

\* Online servers with max_sessions > 0.
EligibleIds == {k \in OnlineIds : Server(k).capacity.max_sessions > 0}

\* C24: select_server never returns an online server with max_sessions = 0 and
\* never fails because of one: it returns nothing iff no online server has
\* max_sessions > 0, and otherwise one of those whose load ratio is minimal
\* among them.
C24_ZeroCapacityIneligible ==
    last.op = "select_server" =>
        /\ last.selected # Raised
        /\ last.selected = NoServer <=> EligibleIds = {}
        /\ EligibleIds # {} =>
              /\ last.selected \in EligibleIds
              /\ \A k \in EligibleIds : RatioLE(last.selected, k)

\* C25: a step that changes the capacity of a server that stays registered is
\* a register_server or a heartbeat step.
C25_CapacityWrittenOnlyByLivenessTraffic ==
    [][(\E id \in ServerKeys(servers) \cap ServerKeys(servers') :
            GetServer(servers', id)[1].capacity # GetServer(servers, id)[1].capacity)
        => last'.op \in {"register_server", "heartbeat"}]_vars

\* C25 witness: a sweep has just turned a server offline, and a session is
\* bound to a registered server.
C25_Witness ==
    /\ last.op = "check_heartbeats"
    /\ \E i \in 1..Len(servers) :
          /\ servers[i].status = OFFLINE
          /\ last.pre[servers[i].server_id] # OFFLINE
          /\ servers[i].capacity.last_updated < now
    /\ \E s \in DOMAIN sessions : sessions[s].server_id \in ServerKeys(servers)

\* C26: after a proxied request is forwarded for a session id that has a
\* session, that session's last_active is the time of the request.
C26_RequestBumpsLastActive ==
    (last.op = "proxy_request" /\ last.server # NoServer
     /\ last.sid \in DOMAIN sessions) =>
        sessions[last.sid].last_active = now

\* C21: a sweep that raises leaves the heartbeat-check task asleep until
\* heartbeat_check_interval later, from where it sweeps again; while the proxy
\* is running the task is alive.
C21_SweepErrorKeepsChecker ==
    /\ (last.op = "check_heartbeats" /\ last.raised) =>
          /\ running
          /\ hb_task = "sleeping"
          /\ hb_failed
          /\ hb_wake = now + heartbeat_check_interval
    /\ running => hb_task \in {"ready", "sleeping"}

\* C21 witness: a sweep made after the sleep that followed a failed sweep, and
\* it raised again.
C21_Witness ==
    /\ last.op = "check_heartbeats"
    /\ last.from = "sleeping after a failed sweep"
    /\ last.raised
    /\ hb_task = "sleeping"

\* C22: after stop() the heartbeat-check task has terminated, wherever it was
\* cancelled; a proxy that is not running has no live task, and a sweep
\* examines a server only while the proxy is running.
C22_StopEndsChecker ==
    /\ last.op = "stop" => (hb_task = "done" /\ hb_snapshot = <<>>)
    /\ ~running => hb_task \in {"none", "done"}
    /\ last.op = "sweep_step" => running

\* C22 witness: stop() cancelled the task during a sweep that still had a
\* timed-out server to examine.
C22_Witness ==
    /\ last.op = "stop"
    /\ last.from = "sweeping"
    /\ hb_task = "done"
    /\ \E i \in 1..Len(servers) :
          servers[i].status # OFFLINE /\ TimedOut(servers[i], hb_now)

\* C30: a step of the sweep leaves the session table and the index unchanged,
\* adds and removes no server, and changes of a server at most its status, to
\* offline.
C30_SweepChangesOnlyStatus ==
    last.op = "sweep_step" =>
        /\ sessions = last.before.sessions
        /\ server_sessions = last.before.server_sessions
        /\ Len(servers) = Len(last.before.servers)
        /\ \A i \in 1..Len(servers) :
              \/ servers[i] = last.before.servers[i]
              \/ servers[i] = [last.before.servers[i] EXCEPT !.status = OFFLINE]

\* C30 witness: the sweep came to a timed-out server of its snapshot that had
\* been unregistered since, while a session was in the session table.
C30_Witness ==
    /\ last.op = "sweep_step"
    /\ last.ok
    /\ last.arg \notin ServerKeys(servers)
    /\ sessions # EmptyMap

\* How often a session id is listed in the index entries of the servers K.
RECURSIVE Listed(_, _)
Listed(sid, K) ==
    IF K = {} THEN 0
    ELSE LET k == CHOOSE x \in K : TRUE
         IN  Cardinality({i \in 1..Len(server_sessions[k]) : server_sessions[k][i] = sid})
                 + Listed(sid, K \ {k})

\* C27: of two proxied requests in progress at the same time that carry the
\* same session id, the first of which found it unbound, both are forwarded to
\* the same server, the id has one session and is listed once in the index.
C27_ConcurrentRequestsBindOnce ==
    \A i, j \in 1..Len(pending) :
        (i < j /\ pending[i].sid = pending[j].sid /\ pending[i].fresh) =>
            /\ pending[j].server = pending[i].server
            /\ pending[i].sid \in DOMAIN sessions
            /\ Listed(pending[i].sid, DOMAIN server_sessions) = 1

\* C28: once the worker's stop() has succeeded (its HTTP client is closed, so
\* it cannot be started again), the worker's server_id is not in the server
\* table, whatever heartbeat of it the proxy handles afterwards.
C28_StoppedWorkerStaysAbsent ==
    w_client = "closed" => WorkerId \notin ServerKeys(servers)

\* The worker is in the server table with a status other than offline.
WorkerPresent ==
    /\ WorkerId \in ServerKeys(servers)
    /\ Server(WorkerId).status # OFFLINE

\* C29: a heartbeat of the worker that the proxy handles leaves the worker in
\* the server table with a status other than offline, and a running worker
\* whose heartbeats keep being delivered is eventually there with such a
\* status, or has been stopped.
C29_DeliveredHeartbeatsRevive ==
    /\ []((last.op = "worker_heartbeat" /\ last.code = 200) => WorkerPresent)
    /\ (w_running ~> (WorkerPresent \/ ~w_running))

\* C29 witness: a delivered heartbeat found the worker marked offline by a
\* sweep and left it online.
C29_Witness ==
    /\ last.op = "worker_heartbeat"
    /\ last.code = 200
    /\ WorkerId \in ServerKeys(last.before.servers)
    /\ last.before.servers[IndexOf(last.before.servers, WorkerId)].status = OFFLINE
    /\ WorkerPresent

\* C31: the entry whose capacity a heartbeat overwrites and the entry whose
\* status it sets are the same entry, whatever the path id and the body's
\* server_id: a heartbeat changes the status of no server other than the one
\* its body names, and a server it finds offline is not offline afterwards.
C31_HeartbeatUpdatesOneEntry ==
    last.op = "heartbeat" =>
        LET pre == StatusOf(last.before.servers)
            after == StatusOf(servers)
        IN  /\ \A id \in ServerKeys(last.before.servers) :
                   after[id] # pre[id] => id = BodyId
            /\ (BodyId \in ServerKeys(last.before.servers) /\ pre[BodyId] = OFFLINE)
                   => after[BodyId] # OFFLINE

\* C32: whatever the order of the start and stop calls (start twice, stop
\* twice, start after stop), at most one heartbeat-check task is alive, one is
\* alive exactly when the proxy is running, and it is the task the handle
\* _heartbeat_check_task holds.
C32_OneCheckerIffRunning ==
    /\ hb_alive <= 1
    /\ running <=> hb_alive = 1
    /\ running <=> Alive(hb_task)

\* C32 witness: start was called on a running proxy whose task was asleep
\* after a failed sweep; it returned at once and the one task is still alive.
C32_Witness ==
    /\ last.op = "start"
    /\ ~last.ok
    /\ last.from = "sleeping after a failed sweep"
    /\ running
    /\ hb_alive = 1

====
